---- MODULE Spec2Model ----
(***************************************************************************)
(* Model of the hold blob abstraction (hold/src/blob.rs, error.rs) and of  *)
(* the S3 provider (hold-s3/src/lib.rs) shared by the tasks of a caller     *)
(* against an object-storage backend. A Provider operation is three steps: *)
(* the call hands the request to the client, the service serves it, and    *)
(* the suspended operation is resumed with the answer and returns.         *)
(***************************************************************************)
EXTENDS Integers, Sequences, FiniteSets, TLC

\* ---------------------------------------------------------------- bounds
MaxLen == 2          \* longest in-memory buffer the caller builds
Bits == 3            \* width of usize / i64 in the model (64 in the build)

Keys == {"a", "b"}
Byte == {0, 1}

RECURSIVE Pow2(_)
Pow2(n) == IF n = 0 THEN 1 ELSE 2 * Pow2(n - 1)

UsizeMod == Pow2(Bits)

\* `x as i64` for a usize x, and `x as usize` for an i64 x (same width)
as_i64(n) == IF n >= UsizeMod \div 2 THEN n - UsizeMod ELSE n
as_usize(i) == i % UsizeMod

\* ---------------------------------------------------------------- values
None == [some |-> FALSE]
Some(v) == [some |-> TRUE, val |-> v]

Ok(v) == [tag |-> "Ok", value |-> v]
Err(e) == [tag |-> "Err", error |-> e]
Panic == [tag |-> "Panic"]
Unit == "()"

Buffers == UNION {[1 .. n -> Byte] : n \in 0 .. MaxLen}

\* one item of a ByteStream: Result<Bytes, io::Error>
Chunk(bytes) == [ok |-> TRUE, bytes |-> bytes]
IoFailure == [ok |-> FALSE]

\* the ways a byte string can arrive as a sequence of chunks
Chunkings(buf) ==
    {<<Chunk(buf)>>}
    \cup {<<Chunk(SubSeq(buf, 1, i)), Chunk(SubSeq(buf, i + 1, Len(buf)))>> :
            i \in 1 .. (Len(buf) - 1)}
    \cup (IF buf = <<>> THEN {<<>>} ELSE {})

RECURSIVE Concat(_)
Concat(items) ==
    IF items = <<>> THEN <<>>
    ELSE IF Head(items).ok THEN Head(items).bytes \o Concat(Tail(items))
    ELSE <<>>

AllOk(items) == \A i \in 1 .. Len(items) : items[i].ok

\* ---------------------------------------------------------------- blob.rs
new(k, sz, stream) == [key |-> k, size |-> sz, content_stream |-> stream]

\* futures::stream::once(async { Ok(Bytes::from(content)) })
once(content) == <<Chunk(content)>>

\* futures::stream::empty()
stream_empty == <<>>

from_bytes(k, content) == new(k, Len(content), once(content))

\* faulty variant: the payload-less Blob built like from_bytes, around one empty chunk
empty_OneChunk(k, sz) == new(k, sz, once(<<>>))

empty(k, sz) == new(k, sz, stream_empty)

key(b) == b.key

\* faulty variant: the size measured on the content instead of the declared field
size_OfStream(b) == Len(Concat(b.content_stream))

size(b) == b.size

into_byte_stream(b) == b.content_stream

\* ---------------------------------------------------------------- error.rs
not_found(id, source) == [kind |-> "IDNotFound", id |-> id, source |-> source]

provider(source) == [kind |-> "ProviderError", source |-> source]

body_error(message) == [kind |-> "BodyError", message |-> message]

\* faulty variant: every kind converted to ErrorKind::Other
from_AllOther(err) ==
    IF err.kind = "BodyError" THEN [kind |-> "Other", error |-> err.message]
    ELSE [kind |-> "Other", error |-> err.source]

\* impl From<Error> for std::io::Error
from(err) ==
    IF err.kind = "IDNotFound" THEN [kind |-> "NotFound", error |-> err.source]
    ELSE IF err.kind = "ProviderError" THEN [kind |-> "Other", error |-> err.source]
    ELSE [kind |-> "Other", error |-> err.message]

\* ---------------------------------------------------------------- backend
\* RusotoError<E> values the S3 client hands back
NoSuchKey == [variant |-> "Service", code |-> "NoSuchKey"]
HttpDispatch == [variant |-> "HttpDispatch"]
Unknown(status) == [variant |-> "Unknown", status |-> status]

SOk(output) == [tag |-> "Ok", output |-> output]
SErr(e) == [tag |-> "Err", err |-> e]

Absent == [present |-> FALSE]
Object(bytes) == [present |-> TRUE, bytes |-> bytes]

\* failures of the transport or of the service that say nothing about the key
Failures == {HttpDispatch, Unknown(500)}

\* an absence signal: the no-such-key service error or a bare 404 response
IsAbsenceSignal(e) ==
    \/ e.variant = "Service"
    \/ e.variant = "Unknown" /\ e.status = 404

IsFailure(resp) == resp.tag = "Err" /\ ~IsAbsenceSignal(resp.err)

\* what the service does with the requests the provider sends -------------
\* a response body as it arrives: whole, in pieces, or cut short by an I/O error
BodyStreams(bytes) ==
    Chunkings(bytes)
    \cup {<<Chunk(SubSeq(bytes, 1, i)), IoFailure>> : i \in 0 .. (Len(bytes) - 1)}

GetObjectOutput(body, content_length) ==
    [body |-> body, content_length |-> content_length]

\* answers to GetObject. wide = FALSE: the S3 service as documented (an absent
\* key is the NoSuchKey service error). wide = TRUE: any S3-compatible endpoint,
\* which may also answer a bare 404 and may leave out optional output fields.
GetObjectResponses(objs, req, wide) ==
    LET o == objs[req.key] IN
    {SErr(e) : e \in Failures}
    \cup (IF ~o.present
          THEN {SErr(NoSuchKey)} \cup (IF wide THEN {SErr(Unknown(404))} ELSE {})
          ELSE {SOk(GetObjectOutput(Some(s), Some(Len(o.bytes)))) :
                    s \in BodyStreams(o.bytes)}
               \cup (IF wide
                     THEN {SOk(GetObjectOutput(None, Some(Len(o.bytes)))),
                           SOk(GetObjectOutput(None, None)),
                           SOk(GetObjectOutput(Some(<<Chunk(o.bytes)>>), None)),
                           SOk(GetObjectOutput(Some(<<Chunk(o.bytes)>>), Some(0 - 1)))}
                     ELSE {}))

\* answers to HeadObject: a HEAD reply has no body, so absence arrives as the
\* service error or as a bare 404
HeadObjectResponses(objs, req, wide) ==
    {SErr(e) : e \in Failures}
    \cup (IF ~objs[req.key].present
          THEN {SErr(NoSuchKey), SErr(Unknown(404))}
          ELSE {SOk(Unit)})

\* a PUT is framed by its Content-Length: the service takes exactly that many
\* bytes, and the request fails when the body ends early or cannot be read
PutAccepted(req) ==
    /\ req.body.some
    /\ AllOk(req.body.val)
    /\ \/ ~req.content_length.some
       \/ /\ req.content_length.val >= 0
          /\ Len(Concat(req.body.val)) >= req.content_length.val

PutObjectResponses(objs, req, wide) ==
    {SErr(e) : e \in Failures}
    \cup (IF wide THEN {SErr(Unknown(404))} ELSE {})
    \cup (IF PutAccepted(req) THEN {SOk(Unit)} ELSE {})

S3Put(objs, req) ==
    LET all == Concat(req.body.val)
        n == IF req.content_length.some THEN req.content_length.val ELSE Len(all)
    IN  [objs EXCEPT ![req.key] = Object(SubSeq(all, 1, n))]

\* DeleteObject succeeds whether or not the key exists
DeleteObjectResponses(objs, req, wide) ==
    {SErr(e) : e \in Failures}
    \cup (IF wide THEN {SErr(Unknown(404))} ELSE {})
    \cup {SOk(Unit)}

S3Delete(objs, req) == [objs EXCEPT ![req.key] = Absent]

\* ---------------------------------------------------------------- hold-s3/lib.rs
GetObjectRequest(k) == [op |-> "GetObject", key |-> k]

\* faulty variant: the fetched Blob built without the response body, as store_blob
\* builds its result
get_blob_NoBody(k, resp) ==
    IF resp.tag = "Err"
    THEN IF resp.err.variant = "Service"
         THEN Ok(None)
         ELSE Err(provider(resp.err))
    ELSE IF ~resp.output.body.some
    THEN Err(body_error("no body found in S3 response"))
    ELSE IF ~resp.output.content_length.some
    THEN Panic
    ELSE Ok(Some(empty(k, as_usize(resp.output.content_length.val))))

\* faulty variant: the no-such-key service error reported as NotFound
get_blob_NotFound(k, resp) ==
    IF resp.tag = "Err"
    THEN IF resp.err.variant = "Service"
         THEN Err(not_found(k, resp.err))
         ELSE Err(provider(resp.err))
    ELSE IF ~resp.output.body.some
    THEN Err(body_error("no body found in S3 response"))
    ELSE IF ~resp.output.content_length.some
    THEN Panic
    ELSE Ok(Some(new(k, as_usize(resp.output.content_length.val),
                     resp.output.body.val)))

get_blob(k, resp) ==
    IF resp.tag = "Err"
    THEN IF resp.err.variant = "Service"
         THEN Ok(None)
         ELSE Err(provider(resp.err))
    ELSE IF ~resp.output.body.some
    THEN Err(body_error("no body found in S3 response"))
    ELSE IF ~resp.output.content_length.some
    THEN Panic
    ELSE Ok(Some(new(k, as_usize(resp.output.content_length.val),
                     resp.output.body.val)))

\* faulty variant: the request sent without its content_length
PutObjectRequest_NoLength(b) ==
    [op |-> "PutObject",
     key |-> key(b),
     content_length |-> None,
     body |-> Some(into_byte_stream(b))]

PutObjectRequest(b) ==
    [op |-> "PutObject",
     key |-> key(b),
     content_length |-> Some(as_i64(size(b))),
     body |-> Some(into_byte_stream(b))]

store_blob(b, resp) ==
    IF resp.tag = "Ok"
    THEN Ok(empty(key(b), size(b)))
    ELSE Err(provider(resp.err))

HeadObjectRequest(k) == [op |-> "HeadObject", key |-> k]

\* faulty variant: every unparsed response taken for absence, whatever its status
is_blob_present_AnyStatus(k, resp) ==
    IF resp.tag = "Ok" THEN Ok(TRUE)
    ELSE IF resp.err.variant = "Service" THEN Ok(FALSE)
    ELSE IF resp.err.variant = "Unknown" THEN Ok(FALSE)
    ELSE Err(provider(resp.err))

is_blob_present(k, resp) ==
    IF resp.tag = "Ok" THEN Ok(TRUE)
    ELSE IF resp.err.variant = "Service" THEN Ok(FALSE)
    ELSE IF resp.err.variant = "Unknown"
    THEN IF resp.err.status = 404 THEN Ok(FALSE) ELSE Err(provider(resp.err))
    ELSE Err(provider(resp.err))

\* faulty variant: the request built for another key than the one given
DeleteObjectRequest_OtherKey(k) ==
    [op |-> "DeleteObject", key |-> CHOOSE j \in Keys : j # k]

DeleteObjectRequest(k) == [op |-> "DeleteObject", key |-> k]

delete_blob(k, resp) ==
    IF resp.tag = "Ok" THEN Ok(Unit) ELSE Err(provider(resp.err))

\* Stream::poll_next on a ByteStream: the next item, or None at the end
poll_next(stream) ==
    IF stream = <<>>
    THEN [out |-> None, rest |-> <<>>]
    ELSE [out |-> Some(Head(stream)), rest |-> Tail(stream)]

\* ---------------------------------------------------------------- state
VARIABLES
    objects,    \* the bucket: key -> Absent or Object(bytes)
    blob,       \* the Blob the caller holds, if any
    origin,     \* how that Blob came to be: the constructor and its arguments
    obs,        \* what key() and size() last returned for the held Blob
    rd,         \* the byte stream the caller is reading, and what it polled
    pending,    \* per task, the Provider operation it awaits, if any
    last,       \* the Provider operation that just returned: request, answer, result
    stored,     \* the caller's latest undisturbed store or delete
    err,        \* an Error value the caller holds, if any
    io          \* the std::io::Error the last conversion produced, if any

vars == <<objects, blob, origin, obs, rd, pending, last, stored, err, io>>

Tasks == {"t1", "t2"}

NoOrigin == [ctor |-> "none"]
NoRead == [active |-> FALSE]
NoOp == [op |-> "none"]
NoTrack == [st |-> "unknown"]
NoCall == [phase |-> "idle"]
NoResp == [tag |-> "none"]

Tracks(k) == stored.st # "unknown" /\ stored.key = k

Init ==
    /\ objects = [k \in Keys |-> Absent]
    /\ blob = None
    /\ origin = NoOrigin
    /\ obs = None
    /\ rd = NoRead
    /\ pending = [t \in Tasks |-> NoCall]
    /\ last = NoOp
    /\ stored = NoTrack
    /\ err = None
    /\ io = None

\* ---------------------------------------------------------------- the caller
\* Blob::from_bytes(key, content)
FromBytes(k, content) ==
    /\ blob' = Some(from_bytes(k, content))
    /\ origin' = [ctor |-> "from_bytes", key |-> k, size |-> Len(content),
                  content |-> Some(content)]
    /\ obs' = None
    /\ last' = NoOp
    /\ UNCHANGED <<objects, rd, pending, stored, err, io>>

\* Blob::empty(key, size)
Empty(k, sz) ==
    /\ blob' = Some(empty(k, sz))
    /\ origin' = [ctor |-> "empty", key |-> k, size |-> sz, content |-> None]
    /\ obs' = None
    /\ last' = NoOp
    /\ UNCHANGED <<objects, rd, pending, stored, err, io>>

\* Blob::new(key, size, stream): the declared size is not tied to the stream
New(k, sz, stream) ==
    /\ blob' = Some(new(k, sz, stream))
    /\ origin' = [ctor |-> "new", key |-> k, size |-> sz, content |-> None]
    /\ obs' = None
    /\ last' = NoOp
    /\ UNCHANGED <<objects, rd, pending, stored, err, io>>

\* blob.key() and blob.size()
Accessors ==
    /\ blob.some
    /\ obs' = Some([key |-> key(blob.val), size |-> size(blob.val)])
    /\ UNCHANGED <<objects, blob, origin, rd, pending, last, stored, err, io>>

\* the held Blob goes out of scope
DropBlob ==
    /\ blob.some
    /\ blob' = None
    /\ origin' = NoOrigin
    /\ obs' = None
    /\ UNCHANGED <<objects, rd, pending, last, stored, err, io>>

\* the stream being read goes out of scope
DropStream ==
    /\ rd.active
    /\ rd' = NoRead
    /\ UNCHANGED <<objects, blob, origin, obs, pending, last, stored, err, io>>

\* blob.into_byte_stream(): the Blob is consumed
IntoByteStream ==
    /\ blob.some
    /\ rd' = [active |-> TRUE, stream |-> into_byte_stream(blob.val),
              polled |-> <<>>, origin |-> origin]
    /\ blob' = None
    /\ origin' = NoOrigin
    /\ obs' = None
    /\ last' = NoOp
    /\ UNCHANGED <<objects, pending, stored, err, io>>

Exhausted(r) == r.polled # <<>> /\ ~r.polled[Len(r.polled)].some

\* one poll of the stream being read, until it reports its end
PollNext ==
    /\ rd.active
    /\ ~Exhausted(rd)
    /\ LET p == poll_next(rd.stream)
       IN  rd' = [rd EXCEPT !.stream = p.rest, !.polled = Append(@, p.out)]
    /\ UNCHANGED <<objects, blob, origin, obs, pending, last, stored, err, io>>

\* ---------------------------------------------------------------- the provider
\* An operation awaited by a task: the request it handed to the client, what it
\* captured before the await, and the answer once the service has given one.
\* expect: what the caller's own undisturbed store or delete says of the key.
\* clean: no other store or delete on the key was under way with this one.
Call(op, k, req, arg, given, expect, clean) ==
    [phase |-> "sent", op |-> op, key |-> k, req |-> req, arg |-> arg,
     given |-> given, expect |-> expect, clean |-> clean,
     resp |-> NoResp, absent |-> FALSE]

Writes(c) == c.phase # "idle" /\ c.op \in {"store_blob", "delete_blob"}

\* another write on the key is under way
Overlaps(t, k) == \E u \in Tasks \ {t} : Writes(pending[u]) /\ pending[u].key = k

\* the calls under way once task t starts a write on key k
Disturbed(t, k) ==
    [u \in Tasks |->
        IF u = t \/ pending[u].phase = "idle" THEN pending[u]
        ELSE IF pending[u].key # k THEN pending[u]
        ELSE IF Writes(pending[u]) THEN [pending[u] EXCEPT !.clean = FALSE]
        ELSE [pending[u] EXCEPT !.expect = NoTrack]]

Known(k) == IF Tracks(k) THEN stored ELSE NoTrack

\* get_blob up to `self.s3.get_object(req).await`
GetBlobCall(t, k) ==
    /\ pending[t].phase = "idle"
    /\ pending' = [pending EXCEPT ![t] =
                      Call("get_blob", k, GetObjectRequest(k), k, None, Known(k), TRUE)]
    /\ last' = NoOp
    /\ UNCHANGED <<objects, blob, origin, obs, rd, stored, err, io>>

\* store_blob(b) up to `self.s3.put_object(req).await`: the Blob is consumed.
\* b is the Blob the caller holds (held) or one it builds in the call
\* expression; o is how b came to be.
StoreBlobCall(t, b, o, held) ==
    /\ pending[t].phase = "idle"
    /\ held => blob = Some(b) /\ origin = o
    /\ pending' = [Disturbed(t, b.key) EXCEPT ![t] =
                      Call("store_blob", b.key, PutObjectRequest(b), b,
                           Some(o), NoTrack, ~Overlaps(t, b.key))]
    /\ stored' = IF Tracks(b.key) THEN NoTrack ELSE stored
    /\ blob' = IF held THEN None ELSE blob
    /\ origin' = IF held THEN NoOrigin ELSE origin
    /\ obs' = IF held THEN None ELSE obs
    /\ last' = NoOp
    /\ UNCHANGED <<objects, rd, err, io>>

\* is_blob_present up to `self.s3.head_object(req).await`
IsBlobPresentCall(t, k) ==
    /\ pending[t].phase = "idle"
    /\ pending' = [pending EXCEPT ![t] =
                      Call("is_blob_present", k, HeadObjectRequest(k), k, None,
                           Known(k), TRUE)]
    /\ last' = NoOp
    /\ UNCHANGED <<objects, blob, origin, obs, rd, stored, err, io>>

\* delete_blob up to `self.s3.delete_object(req).await`
DeleteBlobCall(t, k) ==
    /\ pending[t].phase = "idle"
    /\ pending' = [Disturbed(t, k) EXCEPT ![t] =
                      Call("delete_blob", k, DeleteObjectRequest(k), k, None,
                           Known(k), ~Overlaps(t, k))]
    /\ stored' = IF Tracks(k) THEN NoTrack ELSE stored
    /\ last' = NoOp
    /\ UNCHANGED <<objects, blob, origin, obs, rd, err, io>>

Served(c, resp) ==
    [c EXCEPT !.phase = "served", !.resp = resp,
              !.absent = ~objects[c.key].present]

\* the service answers a GetObject request
GetObject(t, wide) ==
    /\ pending[t].phase = "sent"
    /\ pending[t].op = "get_blob"
    /\ \E resp \in GetObjectResponses(objects, pending[t].req, wide) :
           pending' = [pending EXCEPT ![t] = Served(@, resp)]
    /\ UNCHANGED <<objects, blob, origin, obs, rd, last, stored, err, io>>

\* the service reads the body of a PutObject request, writes and answers
PutObject(t, wide) ==
    /\ pending[t].phase = "sent"
    /\ pending[t].op = "store_blob"
    /\ \E resp \in PutObjectResponses(objects, pending[t].req, wide) :
           /\ pending' = [pending EXCEPT ![t] = Served(@, resp)]
           /\ objects' = IF resp.tag = "Ok" THEN S3Put(objects, pending[t].req)
                         ELSE objects
    /\ UNCHANGED <<blob, origin, obs, rd, last, stored, err, io>>

\* the service answers a HeadObject request
HeadObject(t, wide) ==
    /\ pending[t].phase = "sent"
    /\ pending[t].op = "is_blob_present"
    /\ \E resp \in HeadObjectResponses(objects, pending[t].req, wide) :
           pending' = [pending EXCEPT ![t] = Served(@, resp)]
    /\ UNCHANGED <<objects, blob, origin, obs, rd, last, stored, err, io>>

\* the service deletes and answers a DeleteObject request
DeleteObject(t, wide) ==
    /\ pending[t].phase = "sent"
    /\ pending[t].op = "delete_blob"
    /\ \E resp \in DeleteObjectResponses(objects, pending[t].req, wide) :
           /\ pending' = [pending EXCEPT ![t] = Served(@, resp)]
           /\ objects' = IF resp.tag = "Ok" THEN S3Delete(objects, pending[t].req)
                         ELSE objects
    /\ UNCHANGED <<blob, origin, obs, rd, last, stored, err, io>>

Record(c, result) ==
    [op |-> c.op, key |-> c.key, sent |-> <<c.req>>, resp |-> c.resp,
     result |-> result, given |-> c.given, expect |-> c.expect,
     absent |-> c.absent]

\* get_blob resumed with the answer: lib.rs:70-90
GetBlobReturn(t) ==
    /\ pending[t].phase = "served"
    /\ pending[t].op = "get_blob"
    /\ last' = Record(pending[t], get_blob(pending[t].arg, pending[t].resp))
    /\ pending' = [pending EXCEPT ![t] = NoCall]
    /\ UNCHANGED <<objects, blob, origin, obs, rd, stored, err, io>>

\* store_blob resumed with the answer: lib.rs:109-110
StoreBlobReturn(t) ==
    /\ pending[t].phase = "served"
    /\ pending[t].op = "store_blob"
    /\ LET c == pending[t]
           result == store_blob(c.arg, c.resp)
       IN  /\ last' = Record(c, result)
           /\ stored' = IF result.tag = "Ok" /\ c.clean
                        THEN [st |-> "stored", key |-> c.key, size |-> c.arg.size,
                              actual |-> Len(Concat(c.arg.content_stream)),
                              content |-> IF c.given.val.ctor = "from_bytes"
                                          THEN c.given.val.content ELSE None]
                        ELSE stored
    /\ pending' = [pending EXCEPT ![t] = NoCall]
    /\ UNCHANGED <<objects, blob, origin, obs, rd, err, io>>

\* is_blob_present resumed with the answer: lib.rs:123-145
IsBlobPresentReturn(t) ==
    /\ pending[t].phase = "served"
    /\ pending[t].op = "is_blob_present"
    /\ last' = Record(pending[t], is_blob_present(pending[t].arg, pending[t].resp))
    /\ pending' = [pending EXCEPT ![t] = NoCall]
    /\ UNCHANGED <<objects, blob, origin, obs, rd, stored, err, io>>

\* delete_blob resumed with the answer: lib.rs:160-161
DeleteBlobReturn(t) ==
    /\ pending[t].phase = "served"
    /\ pending[t].op = "delete_blob"
    /\ LET c == pending[t]
           result == delete_blob(c.arg, c.resp)
       IN  /\ last' = Record(c, result)
           /\ stored' = IF result.tag = "Ok" /\ c.clean /\ c.expect.st # "unknown"
                        THEN [st |-> "deleted", key |-> c.key]
                        ELSE stored
    /\ pending' = [pending EXCEPT ![t] = NoCall]
    /\ UNCHANGED <<objects, blob, origin, obs, rd, err, io>>

\* the future of an awaited operation is dropped: it never returns
Cancel(t) ==
    /\ pending[t].phase # "idle"
    /\ pending' = [pending EXCEPT ![t] = NoCall]
    /\ UNCHANGED <<objects, blob, origin, obs, rd, last, stored, err, io>>

\* the Blob an operation returned, if it returned one
Returned ==
    IF last.op = "get_blob" /\ last.result.tag = "Ok" THEN last.result.value
    ELSE IF last.op = "store_blob" /\ last.result.tag = "Ok" THEN Some(last.result.value)
    ELSE None

\* the caller binds the Blob the operation returned: the Blob is moved out of
\* the result, which cannot be used again
Keep ==
    /\ last.op # "none"
    /\ Returned.some
    /\ blob' = Returned
    /\ origin' = [ctor |-> last.op, key |-> last.key, size |-> Returned.val.size,
                  content |-> IF last.expect.st = "stored"
                              THEN last.expect.content ELSE None]
    /\ obs' = None
    /\ last' = NoOp
    /\ UNCHANGED <<objects, rd, pending, stored, err, io>>

\* ---------------------------------------------------------------- callers
\* sizes a caller declares for a payload-less Blob: every buffer length, and
\* the largest usize (which does not fit an i64)
DeclaredSizes == (0 .. MaxLen) \cup {UsizeMod - 1}

\* streams a caller hands to Blob::new: a fixed payload in every chunking, and
\* a stream that fails; the declared size runs over every length up to it
Payload == [i \in 1 .. MaxLen |-> i % 2]
CallerStreams == Chunkings(Payload) \cup {<<IoFailure>>}

FromBytesOrigin(k, content) ==
    [ctor |-> "from_bytes", key |-> k, size |-> Len(content), content |-> Some(content)]

NewOrigin(k, sz) == [ctor |-> "new", key |-> k, size |-> sz, content |-> None]

\* Blobs a task builds in the call expression of store_blob: the empty buffer,
\* the payload, and the payload declared one byte short
Fresh ==
    {[b |-> from_bytes(k, c), o |-> FromBytesOrigin(k, c)] :
        k \in Keys, c \in {<<>>, Payload}}
    \cup {[b |-> new(k, MaxLen - 1, <<Chunk(Payload)>>), o |-> NewOrigin(k, MaxLen - 1)] :
            k \in Keys}

Quiet(T) == \A t \in T : pending[t].phase = "idle"

\* a caller that holds one thing at a time: a Blob, a stream it reads, or the
\* operation it awaits
Free == ~blob.some /\ ~rd.active /\ Quiet(Tasks)

ConstructFromBytes == Free /\ \E k \in Keys, content \in Buffers : FromBytes(k, content)

ConstructEmpty == Free /\ \E k \in Keys, sz \in DeclaredSizes : Empty(k, sz)

ConstructNew ==
    Free /\ \E k \in Keys, sz \in 0 .. MaxLen, stream \in CallerStreams : New(k, sz, stream)

StoreHeld == ~rd.active /\ blob.some /\ StoreBlobCall("t1", blob.val, origin, TRUE)

Fetch == Free /\ \E k \in Keys : GetBlobCall("t1", k)

KeepReturned == Free /\ Keep

Read == Quiet(Tasks) /\ IntoByteStream

\* one task: it builds a Blob and inspects it, or stores it, or fetches one
NextSolo ==
    \/ ConstructFromBytes
    \/ ConstructEmpty
    \/ ConstructNew
    \/ Accessors
    \/ DropBlob
    \/ StoreHeld
    \/ Fetch
    \/ KeepReturned
    \/ PutObject("t1", FALSE)
    \/ GetObject("t1", FALSE)
    \/ StoreBlobReturn("t1")
    \/ GetBlobReturn("t1")
    \/ Cancel("t1")

SpecSolo == Init /\ [][NextSolo]_vars

\* one task: it stores buffers, fetches them and reads the streams to their end
NextRead ==
    \/ ConstructFromBytes
    \/ ConstructEmpty
    \/ StoreHeld
    \/ Fetch
    \/ KeepReturned
    \/ PutObject("t1", FALSE)
    \/ GetObject("t1", FALSE)
    \/ StoreBlobReturn("t1")
    \/ GetBlobReturn("t1")
    \/ Cancel("t1")
    \/ Read
    \/ PollNext
    \/ DropStream

SpecRead == Init /\ [][NextRead]_vars

StoreFresh(t, F) == \E f \in F : StoreBlobCall(t, f.b, f.o, FALSE)

\* the tasks sharing the provider: each awaits one operation at a time, and any
\* step of one may fall between the call and the return of another
Shared(wide, F) ==
    \/ \E t \in Tasks : StoreFresh(t, F)
    \/ \E t \in Tasks, k \in Keys : GetBlobCall(t, k)
    \/ \E t \in Tasks, k \in Keys : IsBlobPresentCall(t, k)
    \/ \E t \in Tasks, k \in Keys : DeleteBlobCall(t, k)
    \/ \E t \in Tasks : GetObject(t, wide)
    \/ \E t \in Tasks : PutObject(t, wide)
    \/ \E t \in Tasks : HeadObject(t, wide)
    \/ \E t \in Tasks : DeleteObject(t, wide)
    \/ \E t \in Tasks : GetBlobReturn(t)
    \/ \E t \in Tasks : StoreBlobReturn(t)
    \/ \E t \in Tasks : IsBlobPresentReturn(t)
    \/ \E t \in Tasks : DeleteBlobReturn(t)
    \/ \E t \in Tasks : Cancel(t)

Next == Shared(FALSE, Fresh)

\* against the S3 service as documented
Spec == Init /\ [][Next]_vars

\* the payload alone
FreshPayload == {f \in Fresh : f.o.ctor = "from_bytes" /\ f.o.size = MaxLen}

NextCompat == Shared(TRUE, FreshPayload)

\* against any S3-compatible endpoint
SpecCompat == Init /\ [][NextCompat]_vars

\* ---------------------------------------------------------------- errors
Causes == Failures \cup {NoSuchKey, Unknown(404)}
Messages == {"no body found in S3 response", ""}

NotFound(id, source) ==
    /\ err' = Some(not_found(id, source))
    /\ UNCHANGED <<objects, blob, origin, obs, rd, pending, last, stored, io>>

ProviderError(source) ==
    /\ err' = Some(provider(source))
    /\ UNCHANGED <<objects, blob, origin, obs, rd, pending, last, stored, io>>

BodyError(message) ==
    /\ err' = Some(body_error(message))
    /\ UNCHANGED <<objects, blob, origin, obs, rd, pending, last, stored, io>>

\* std::io::Error::from(err): the Error is consumed
IntoIoError ==
    /\ err.some
    /\ io' = Some([of |-> err.val, to |-> from(err.val)])
    /\ err' = None
    /\ UNCHANGED <<objects, blob, origin, obs, rd, pending, last, stored>>

NextErr ==
    \/ \E id \in Keys, source \in Causes : NotFound(id, source)
    \/ \E source \in Causes : ProviderError(source)
    \/ \E message \in Messages : BodyError(message)
    \/ IntoIoError

\* a caller building taxonomy errors and converting them to I/O errors
SpecErr == Init /\ [][NextErr]_vars

\* ---------------------------------------------------------------- properties
Operated == last.op # "none"
\* the key held no object when the service served the request
AbsentBefore == last.absent
AbsenceSignalled == last.resp.tag = "Err" /\ IsAbsenceSignal(last.resp.err)

\* what a reader has received so far, and whether a poll failed
RECURSIVE Received(_)
Received(polled) ==
    IF polled = <<>> THEN <<>>
    ELSE IF Head(polled).some /\ Head(polled).val.ok
    THEN Head(polled).val.bytes \o Received(Tail(polled))
    ELSE Received(Tail(polled))

ReadFailed(polled) == \E i \in 1 .. Len(polled) : polled[i].some /\ ~polled[i].val.ok

\* C1: for a key absent from the backend, whichever absence signal the backend
\* gives (the no-such-key service error or a bare 404), get_blob returns
\* Ok(None) and is_blob_present returns Ok(false), never an Err.
C1_AbsenceIsNotAnError ==
    (Operated /\ AbsentBefore /\ AbsenceSignalled) =>
        /\ last.op = "get_blob" => last.result = Ok(None)
        /\ last.op = "is_blob_present" => last.result = Ok(FALSE)

\* C2: after store_blob(b) returned Ok under key k, a get_blob(k) called after
\* that return, with no other store or delete on k under way from the call of
\* the store to the return of the get, and answered by the backend, returns
\* Some(Blob) whose key() is k and whose size() is b.size(), whatever b's
\* stream length was and whatever other tasks do to other keys meanwhile.
C2_StoredSizeAndKey ==
    (/\ Operated
     /\ last.op = "get_blob"
     /\ last.expect.st = "stored"
     /\ ~IsFailure(last.resp)) =>
        /\ last.result.tag = "Ok"
        /\ last.result.value.some
        /\ key(last.result.value.val) = last.key
        /\ size(last.result.value.val) = last.expect.size

\* a fetch of a key whose stored Blob declared fewer bytes than its stream
\* held, returning while another task's write on the other key is under way
C2_Witness ==
    /\ Operated
    /\ last.op = "get_blob"
    /\ last.expect.st = "stored"
    /\ last.expect.actual > last.expect.size
    /\ last.expect.size > 0
    /\ last.result.tag = "Ok"
    /\ last.result.value.some
    /\ last.result.value.val.size = last.expect.size
    /\ \E t \in Tasks : Writes(pending[t]) /\ pending[t].phase = "served"

\* C3: a buffer of length N stored with Blob::from_bytes and fetched back with
\* get_blob is read to exhaustion, without a transport failure, as exactly N
\* bytes whose concatenation is the buffer.
C3_RoundTrip ==
    (/\ rd.active
     /\ rd.origin.ctor = "get_blob"
     /\ rd.origin.content.some
     /\ Exhausted(rd)
     /\ ~ReadFailed(rd.polled)) =>
        /\ Received(rd.polled) = rd.origin.content.val
        /\ Len(Received(rd.polled)) = Len(rd.origin.content.val)

\* a fetched buffer of the greatest length, delivered in two chunks and read out
C3_Witness ==
    /\ rd.active
    /\ rd.origin.ctor = "get_blob"
    /\ rd.origin.content.some
    /\ Len(rd.origin.content.val) = MaxLen
    /\ Exhausted(rd)
    /\ Len(rd.polled) = 3
    /\ ~ReadFailed(rd.polled)
    /\ Received(rd.polled) = rd.origin.content.val

\* C4: once delete_blob(k) returned Ok for a stored key k, a get_blob(k) or
\* is_blob_present(k) called after that return, with no other store or delete
\* on k under way from the call of the delete to its own return, and answered
\* by the backend, returns Ok(None), respectively Ok(false).
C4_DeletedThenAbsent ==
    (/\ Operated
     /\ last.op \in {"get_blob", "is_blob_present"}
     /\ last.expect.st = "deleted"
     /\ ~IsFailure(last.resp)) =>
        /\ last.op = "get_blob" => last.result = Ok(None)
        /\ last.op = "is_blob_present" => last.result = Ok(FALSE)

\* a fetch of a key that was stored and then deleted
C4_Witness ==
    /\ Operated
    /\ last.op = "get_blob"
    /\ last.expect.st = "deleted"
    /\ last.result = Ok(None)
    /\ \E k \in Keys : objects[k].present

\* the service serves the DeleteObject request of a delete_blob(k) while k
\* holds no object
ServesDeleteOfAbsent(t) ==
    /\ pending[t].phase = "sent"
    /\ pending[t].op = "delete_blob"
    /\ pending'[t].phase = "served"
    /\ ~objects[pending[t].key].present

\* C5: delete_blob(k) on a key absent from the backend returns Ok(()) unless the
\* request itself fails, and never reports the absence: its only error is the
\* ProviderError of a failed request; serving its request leaves the bucket as
\* it was.
C5_DeleteAbsentIsOk ==
    /\ []((Operated /\ last.op = "delete_blob" /\ AbsentBefore) =>
            /\ ~IsFailure(last.resp) => last.result = Ok(Unit)
            /\ last.result.tag = "Err" =>
                  /\ IsFailure(last.resp)
                  /\ last.result.error.kind = "ProviderError")
    /\ [][\A t \in Tasks : ServesDeleteOfAbsent(t) => objects' = objects]_vars

\* a successful delete of an absent key while the other key holds an object
C5_Witness ==
    /\ Operated
    /\ last.op = "delete_blob"
    /\ AbsentBefore
    /\ last.result = Ok(Unit)
    /\ \E k \in Keys : objects[k].present

\* C6: in each of the four operations a backend error that is no absence signal
\* comes back as Err(ProviderError) whose source is that error, never as a
\* value, NotFound or BodyError, and the operation sent one request only.
C6_FailureIsProviderError ==
    (Operated /\ IsFailure(last.resp)) =>
        /\ last.result.tag = "Err"
        /\ last.result.error.kind = "ProviderError"
        /\ last.result.error.source = last.resp.err
        /\ Len(last.sent) = 1

\* an existence check answered with a non-404 status
C6_Witness ==
    /\ Operated
    /\ last.op = "is_blob_present"
    /\ last.resp = SErr(Unknown(500))
    /\ last.result.tag = "Err"

\* C7: every operation returns, for every backend response, a value: Ok or an
\* Err of kind NotFound, ProviderError or BodyError; get_blob on a successful
\* response gives BodyError without a body and Some(Blob) with one, whatever
\* the content length.
C7_AlwaysAValue ==
    Operated =>
        /\ last.result.tag \in {"Ok", "Err"}
        /\ last.result.tag = "Err" =>
              last.result.error.kind \in {"IDNotFound", "ProviderError", "BodyError"}
        /\ (last.op = "get_blob" /\ last.resp.tag = "Ok") =>
              IF last.resp.output.body.some
              THEN last.result.tag = "Ok" /\ last.result.value.some
              ELSE last.result.tag = "Err" /\ last.result.error.kind = "BodyError"

\* C8: std::io::Error::from maps IDNotFound to kind NotFound, and ProviderError
\* and BodyError to kind Other, whatever the id, source or message.
C8_IoErrorKind ==
    io.some =>
        /\ io.val.of.kind = "IDNotFound" => io.val.to.kind = "NotFound"
        /\ io.val.of.kind = "ProviderError" => io.val.to.kind = "Other"
        /\ io.val.of.kind = "BodyError" => io.val.to.kind = "Other"

\* a converted IDNotFound
C8_Witness ==
    /\ io.some
    /\ io.val.of.kind = "IDNotFound"
    /\ io.val.to.kind = "NotFound"

ZeroLengthSource(o) ==
    \/ o.ctor = "empty"
    \/ o.ctor = "from_bytes" /\ o.content.val = <<>>

\* C9 as claimed: the stream of Blob::empty(key, size) and of
\* Blob::from_bytes(key, empty buffer) reports its end at the first poll, with
\* no chunk, no error and 0 bytes read.
C9_FirstPollEnds ==
    (rd.active /\ ZeroLengthSource(rd.origin) /\ rd.polled # <<>>) =>
        /\ rd.polled[1] = None
        /\ ~ReadFailed(rd.polled)
        /\ Received(rd.polled) = <<>>

\* C9 amended: the stream of Blob::empty reports its end at the first poll; the
\* stream of Blob::from_bytes(key, empty buffer) yields one zero-length chunk at
\* the first poll and its end at the second; both read 0 bytes and no error.
C9_ZeroBytesRead ==
    (rd.active /\ ZeroLengthSource(rd.origin) /\ rd.polled # <<>>) =>
        /\ rd.origin.ctor = "empty" => rd.polled[1] = None
        /\ rd.origin.ctor = "from_bytes" =>
              /\ rd.polled[1] = Some(Chunk(<<>>))
              /\ Len(rd.polled) >= 2 => rd.polled[2] = None
        /\ ~ReadFailed(rd.polled)
        /\ Received(rd.polled) = <<>>

\* the stream of from_bytes(key, empty buffer) read to its end
C9_Witness ==
    /\ rd.active
    /\ rd.origin.ctor = "from_bytes"
    /\ rd.origin.content.val = <<>>
    /\ Exhausted(rd)
    /\ Len(rd.polled) = 2

\* C10: a Blob built by a constructor has the key and the size it was given
\* (from_bytes: the buffer's length); key() and size() return them at every call,
\* and store_blob sends that key and that size and returns them.
C10_KeyAndSizeFixed ==
    /\ (blob.some /\ origin.ctor \in {"from_bytes", "empty", "new"}) =>
          /\ key(blob.val) = origin.key
          /\ size(blob.val) = origin.size
          /\ origin.ctor = "from_bytes" => size(blob.val) = Len(origin.content.val)
    /\ obs.some => obs.val = [key |-> origin.key, size |-> origin.size]
    /\ (Operated /\ last.op = "store_blob") =>
          /\ last.sent[1].key = last.given.val.key
          /\ last.sent[1].content_length = Some(as_i64(last.given.val.size))
          /\ last.result.tag = "Ok" =>
                /\ last.result.value.key = last.given.val.key
                /\ last.result.value.size = last.given.val.size

\* a from_bytes Blob whose accessors were read, and a store of a built Blob
C10_Witness ==
    \/ /\ blob.some
       /\ origin.ctor = "from_bytes"
       /\ origin.size = MaxLen
       /\ obs.some
    \/ /\ Operated
       /\ last.op = "store_blob"
       /\ last.result.tag = "Ok"
       /\ last.given.val.ctor = "from_bytes"
       /\ last.given.val.size = MaxLen
====
